---- MODULE Spec2Model ----
(***************************************************************************)
(* Cartesian velocity controller (velocity_pid.cpp).                       *)
(*                                                                         *)
(* Three threads touch the controller:                                     *)
(*   - the realtime thread, which calls starting() and then update() once  *)
(*     per control cycle;                                                  *)
(*   - the subscriber thread, which runs command_cart_vel() for every      *)
(*     inbound twist message; it writes the six components of x_dt_des_    *)
(*     one after the other, with no lock;                                  *)
(*   - the background thread of the realtime publisher, which sends the    *)
(*     message handed over by unlockAndPublish() and then gives the turn   *)
(*     back to the realtime thread.                                        *)
(*                                                                         *)
(* Time is counted in clock ticks; ros::Duration(1.0/publish_rate_) is the *)
(* interval rounded to a whole number of ticks.                            *)
(***************************************************************************)
EXTENDS Integers, Sequences, FiniteSets, TLC

\* ---------------------------------------------------------------- bounds
NJ == 2            \* joints of the declared chain
MaxTime == 5       \* last clock tick followed when no command arrives
CmdMaxTime == 3    \* last clock tick followed when commands arrive
MaxDeliveries == 2 \* inbound messages followed
MaxStep == 1       \* largest advance of the clock between two cycles
MaxPeriod == 1     \* largest cycle period handed to update()
TicksPerSec == 4   \* clock resolution (ticks per second)

\* ------------------------------------------------------------ value sets
Joints == 1..NJ
Pos == {0, 1}                  \* sensed joint positions / velocities
Garbage == {0, 7}              \* what a read outside a buffer may return
Rates == {-1, 0, 2, 4}         \* values of the publish_rate parameter (Hz)
Variants == {"PID", "PIDSim"}  \* the two command-writer subclasses

\* geometry_msgs::Twist messages that may arrive
Msgs ==
  { [linear |-> [x |-> 1, y |-> 2, z |-> 3], angular |-> [x |-> 4, y |-> 5, z |-> 6]],
    [linear |-> [x |-> 2, y |-> 0, z |-> 1], angular |-> [x |-> 0, y |-> 3, z |-> 0]] }

\* ------------------------------------------------------------ KDL values
\* KDL::Twist::Zero()
TwistZero == [vel |-> <<0, 0, 0>>, rot |-> <<0, 0, 0>>]

\* the twist a message denotes: vel = linear x/y/z, rot = angular x/y/z
TwistOfMsg(m) ==
  [vel |-> <<m.linear.x, m.linear.y, m.linear.z>>,
   rot |-> <<m.angular.x, m.angular.y, m.angular.z>>]

\* the k-th assignment of command_cart_vel (k = 1..6)
WriteComponent(tw, k, m) ==
  CASE k = 1 -> [tw EXCEPT !.vel[1] = m.linear.x]
    [] k = 2 -> [tw EXCEPT !.vel[2] = m.linear.y]
    [] k = 3 -> [tw EXCEPT !.vel[3] = m.linear.z]
    [] k = 4 -> [tw EXCEPT !.rot[1] = m.angular.x]
    [] k = 5 -> [tw EXCEPT !.rot[2] = m.angular.y]
    [] k = 6 -> [tw EXCEPT !.rot[3] = m.angular.z]

\* the six components of a twist, vel first
TwistVec(tw) == tw.vel \o tw.rot

RECURSIVE SumTo(_, _)
SumTo(f, n) == IF n = 0 THEN 0 ELSE f[n] + SumTo(f, n - 1)

\* Entry (i, j) of the pseudo-inverse Jacobian at configuration q: the
\* inverse velocity solve is linear in the twist at a fixed configuration.
PinvEntry(q, i, j) == ((i + j + q[i]) % 3) - 1

\* an inverse solve that adds the joint position to every velocity
CartToJnt_biased(q, v) ==
  [i \in DOMAIN q |->
     q[i] + SumTo([j \in 1..6 |-> PinvEntry(q, i, j) * TwistVec(v)[j]], 6)]

\* ik_vel_solver_->CartToJnt(q, v, qdot_out): one velocity per chain joint
CartToJnt(q, v) ==
  [i \in DOMAIN q |->
     SumTo([j \in 1..6 |-> PinvEntry(q, i, j) * TwistVec(v)[j]], 6)]

\* fk_pos_solver_->JntToCart(q, x): the pose of the tip at configuration q
FkPos(q) == SumTo([i \in 1..Len(q) |-> i * q[i]], Len(q))

\* fk_vel_solver_->JntToCart(q, qdot, x_dot): the twist of the tip
FkVel(q, qdot) == SumTo([i \in 1..Len(q) |-> (1 + q[i]) * qdot[i]], Len(q))

\* ros::Duration(1.0 / rate): the interval in whole ticks, rounded to nearest
PublishInterval(rate) == (2 * TicksPerSec + rate) \div (2 * rate)

\* ----------------------------------------------------------------- state
VARIABLES
  variant,             \* which subclass supplies writeVelocityCommands
  init_ret,            \* "none" before init(), then what init() returned
  nJoints,             \* kdl_chain_.getNrOfJoints()
  nHandles,            \* joint_handles_.size()
  publish_rate_,
  pub_created,         \* realtime_pub_ has been reset to a publisher
  subscribed,          \* sub_command_ is subscribed to command_cart_vel
  joint_msr_,          \* [q, qdot]: the joint state snapshot
  q_dt_cmd_,           \* the joint velocity command
  x_dt_des_,           \* the desired Cartesian twist (shared with the callback)
  x_,                  \* pose estimate
  x_dot_,              \* twist estimate
  last_publish_time_,
  command,             \* what setCommand() last wrote to each joint handle
  pub_turn,            \* realtime publisher: whose turn it is
  msg_,                \* realtime_pub_->msg_
  cb_pc,               \* command_cart_vel: 0 idle, k = next assignment is k
  cb_msg,              \* the message command_cart_vel is copying
  rt_pc,               \* realtime thread: "inactive", "ready", or a stage of update()
  now,                 \* the clock; during a cycle, update()'s time argument
  start_time,          \* the time argument of the last starting()
  pub_times,           \* times of the cycles that published since starting()
  stages,              \* the stages the current (or last) cycle went through
  ik_twist,            \* the twist the last inverse solve was given
  snap,                \* joint_msr_ as the current cycle's read left it
  base_ret,            \* what KinematicChainControllerBase<T>::init returned
  cfg_param,           \* what the node handle held for "publish_rate"
  fresh,               \* no message has been delivered since the last starting()
  delivered,           \* number of messages delivered so far
  oob,                 \* an index beyond a per-joint buffer has been used
  period,              \* the period the command writer of the current cycle was given
  handoff              \* the last delivery: "none", "clean" or "overlapped" while
                       \* command_cart_vel runs, "whole" once it has returned
                       \* without having run alongside an update()

vars ==
  <<variant, init_ret, nJoints, nHandles, publish_rate_, pub_created, subscribed,
    joint_msr_, q_dt_cmd_, x_dt_des_, x_, x_dot_, last_publish_time_, command,
    pub_turn, msg_, cb_pc, cb_msg, rt_pc, now, start_time, pub_times,
    stages, ik_twist, snap, base_ret, cfg_param, fresh, delivered, oob, period,
    handoff>>

\* what only init() and the arrival of a message change
ctrlVars ==
  <<variant, init_ret, nJoints, nHandles, publish_rate_, pub_created, subscribed,
    base_ret, cfg_param, delivered>>

Min(a, b) == IF a < b THEN a ELSE b

\* What the node handle holds for "publish_rate": nothing, or one number.
NoParam == <<>>
Params == {NoParam} \cup {<<r>> : r \in Rates}

NoMsg == [stamp |-> 0, pose |-> 0, twist |-> 0]

AnyMsg == CHOOSE m \in Msgs : TRUE

Init ==
  /\ variant \in Variants
  /\ init_ret = "none"
  /\ nJoints = 0
  /\ nHandles = 0
  /\ publish_rate_ = 0
  /\ pub_created = FALSE
  /\ subscribed = FALSE
  /\ joint_msr_ = [q |-> <<>>, qdot |-> <<>>]
  /\ q_dt_cmd_ = <<>>
  /\ x_dt_des_ = TwistZero
  /\ x_ = 0
  /\ x_dot_ = 0
  /\ last_publish_time_ = 0
  /\ command = <<>>
  /\ pub_turn = "REALTIME"
  /\ msg_ = NoMsg
  /\ cb_pc = 0
  /\ cb_msg = AnyMsg
  /\ rt_pc = "inactive"
  /\ now = 0
  /\ start_time = 0
  /\ pub_times = <<>>
  /\ stages = <<>>
  /\ ik_twist = TwistZero
  /\ snap = [q |-> <<>>, qdot |-> <<>>]
  /\ base_ret = TRUE
  /\ cfg_param = NoParam
  /\ fresh = TRUE
  /\ delivered = 0
  /\ oob = FALSE
  /\ period = 0
  /\ handoff = "none"

\* ------------------------------------------------------------------ init
ChainOutcomes == {"ok", "no_chain", "mismatch"}

\* KinematicChainControllerBase<T>::init: builds kdl_chain_ and collects the
\* joint handles; it fails when the chain cannot be built or when the joint
\* count of the chain differs from the number of handles.
KinematicChainControllerBase_init(outcome) ==
  CASE outcome = "ok"       -> [ret |-> TRUE,  joints |-> NJ,     handles |-> NJ]
    [] outcome = "no_chain" -> [ret |-> FALSE, joints |-> 0,      handles |-> 0]
    [] outcome = "mismatch" -> [ret |-> FALSE, joints |-> NJ - 1, handles |-> NJ]

Zeros(n) == [i \in 1..n |-> 0]

\* init() with the publisher and the subscription set up ahead of the
\* parameter check
init_subscribing_first(outcome, param) ==
  LET base == KinematicChainControllerBase_init(outcome) IN
  /\ init_ret = "none"
  /\ base_ret' = base.ret
  /\ cfg_param' = param
  /\ nJoints' = base.joints
  /\ nHandles' = base.handles
  /\ command' = Zeros(base.handles)
  /\ IF param = NoParam
       THEN /\ init_ret' = "false"
            /\ pub_created' = TRUE
            /\ subscribed' = TRUE
            /\ UNCHANGED <<publish_rate_, joint_msr_, q_dt_cmd_, x_dt_des_, x_, x_dot_>>
       ELSE /\ publish_rate_' = param[1]
            /\ pub_created' = TRUE
            /\ subscribed' = TRUE
            /\ joint_msr_' = [q |-> Zeros(base.joints), qdot |-> Zeros(base.joints)]
            /\ q_dt_cmd_' = Zeros(base.joints)
            /\ x_dt_des_' = TwistZero
            /\ x_' = 0
            /\ x_dot_' = 0
            /\ init_ret' = "true"
  /\ UNCHANGED <<variant, last_publish_time_, pub_turn, msg_, cb_pc, cb_msg, rt_pc,
                 now, start_time, pub_times, stages, ik_twist, snap, fresh,
                 delivered, oob, period,
                 handoff>>

\* init(robot, n): outcome is what the chain setup does with this robot,
\* param is what the node handle holds for "publish_rate".
init(outcome, param) ==
  LET base == KinematicChainControllerBase_init(outcome) IN
  /\ init_ret = "none"
  /\ base_ret' = base.ret
  /\ cfg_param' = param
  /\ nJoints' = base.joints
  /\ nHandles' = base.handles
  /\ command' = Zeros(base.handles)
  /\ IF param = NoParam
       THEN /\ init_ret' = "false"
            /\ UNCHANGED <<publish_rate_, pub_created, subscribed, joint_msr_,
                           q_dt_cmd_, x_dt_des_, x_, x_dot_>>
       ELSE /\ publish_rate_' = param[1]
            /\ pub_created' = TRUE
            /\ subscribed' = TRUE
            /\ joint_msr_' = [q |-> Zeros(base.joints), qdot |-> Zeros(base.joints)]
            /\ q_dt_cmd_' = Zeros(base.joints)
            /\ x_dt_des_' = TwistZero
            /\ x_' = 0
            /\ x_dot_' = 0
            /\ init_ret' = "true"
  /\ UNCHANGED <<variant, last_publish_time_, pub_turn, msg_, cb_pc, cb_msg, rt_pc,
                 now, start_time, pub_times, stages, ik_twist, snap, fresh,
                 delivered, oob, period,
                 handoff>>

\* -------------------------------------------------------------- starting
\* starting(time): runs on the realtime thread of an initialized controller,
\* before the first cycle and again at every restart.
starting(t) ==
  /\ init_ret = "true"
  /\ rt_pc \in {"inactive", "ready"}
  /\ now' = t
  /\ q_dt_cmd_' = [i \in 1..nJoints |-> IF i <= nHandles THEN 0 ELSE q_dt_cmd_[i]]
  /\ oob' = (oob \/ nHandles > nJoints)
  /\ x_dt_des_' = TwistZero
  /\ last_publish_time_' = t
  /\ start_time' = t
  /\ pub_times' = <<>>
  /\ stages' = <<>>
  /\ fresh' = TRUE
  /\ rt_pc' = "ready"
  /\ period' = 0
  /\ handoff' = IF cb_pc = 0 THEN "none" ELSE handoff
  /\ UNCHANGED <<ctrlVars, joint_msr_, x_, x_dot_, command, pub_turn, msg_, cb_pc,
                 cb_msg, ik_twist, snap>>

\* ------------------------------------------------------ command_cart_vel
\* A message arrives: the subscriber thread enters command_cart_vel.
command_cart_vel_begin(m) ==
  /\ subscribed
  /\ cb_pc = 0
  /\ delivered < MaxDeliveries
  /\ delivered' = delivered + 1
  /\ cb_pc' = 1
  /\ cb_msg' = m
  /\ fresh' = FALSE
  /\ handoff' = IF rt_pc \in {"inactive", "ready"} THEN "clean" ELSE "overlapped"
  /\ UNCHANGED <<variant, init_ret, nJoints, nHandles, publish_rate_, pub_created,
                 subscribed, base_ret, cfg_param, snap, joint_msr_, q_dt_cmd_,
                 x_dt_des_, x_, x_dot_, last_publish_time_, command, pub_turn, msg_,
                 rt_pc, now, start_time, pub_times, stages, ik_twist, oob, period>>

\* an assignment of command_cart_vel that also stamps the publish gate
command_cart_vel_step_stamping ==
  /\ cb_pc \in 1..6
  /\ x_dt_des_' = WriteComponent(x_dt_des_, cb_pc, cb_msg)
  /\ cb_pc' = IF cb_pc = 6 THEN 0 ELSE cb_pc + 1
  /\ handoff' = IF cb_pc < 6 THEN handoff
                ELSE IF handoff = "clean" THEN "whole" ELSE "none"
  /\ last_publish_time_' = now
  /\ UNCHANGED <<ctrlVars, joint_msr_, q_dt_cmd_, x_, x_dot_,
                 command, pub_turn, msg_, cb_msg, rt_pc, now, start_time,
                 pub_times, stages, ik_twist, snap, fresh, oob, period>>

\* One of the six assignments of command_cart_vel; the sixth one returns.
command_cart_vel_step ==
  /\ cb_pc \in 1..6
  /\ x_dt_des_' = WriteComponent(x_dt_des_, cb_pc, cb_msg)
  /\ cb_pc' = IF cb_pc = 6 THEN 0 ELSE cb_pc + 1
  /\ handoff' = IF cb_pc < 6 THEN handoff
                ELSE IF handoff = "clean" THEN "whole" ELSE "none"
  /\ UNCHANGED <<ctrlVars, joint_msr_, q_dt_cmd_, x_, x_dot_, last_publish_time_,
                 command, pub_turn, msg_, cb_msg, rt_pc, now, start_time,
                 pub_times, stages, ik_twist, snap, fresh, oob, period>>

\* ---------------------------------------------------------------- update
\* What the joint handles report: one position and one velocity per handle.
Sensed(n) ==
  { [q |-> [i \in 1..n |-> (i + k) % 2], qdot |-> [i \in 1..n |-> k]] : k \in Pos }

\* Lines 69-73: copy the sensed state of every handle into joint_msr_.
ReadJoints(msr, s, n) ==
  [q    |-> [i \in 1..Len(msr.q) |-> IF i <= n THEN s.q[i] ELSE msr.q[i]],
   qdot |-> [i \in 1..Len(msr.qdot) |-> IF i <= n THEN s.qdot[i] ELSE msr.qdot[i]]]

\* update(time, period) is entered: t is its time argument, s is what the
\* handles report during this cycle.
update_read(t, s) ==
  /\ rt_pc = "ready"
  /\ now' = t
  /\ joint_msr_' = ReadJoints(joint_msr_, s, nHandles)
  /\ snap' = joint_msr_'
  /\ oob' = (oob \/ nHandles > nJoints)
  /\ stages' = <<"read">>
  /\ rt_pc' = "ik"
  /\ period' = 0
  /\ handoff' = IF cb_pc # 0 THEN "overlapped" ELSE handoff
  /\ UNCHANGED <<ctrlVars, q_dt_cmd_, x_dt_des_, x_, x_dot_, last_publish_time_,
                 command, pub_turn, msg_, cb_pc, cb_msg, start_time, pub_times,
                 ik_twist, fresh>>

\* Line 76: the inverse velocity solve reads x_dt_des_ as it is at this moment.
update_ik ==
  /\ rt_pc = "ik"
  /\ ik_twist' = x_dt_des_
  /\ q_dt_cmd_' = CartToJnt(joint_msr_.q, x_dt_des_)
  /\ stages' = Append(stages, "ik")
  /\ rt_pc' = "write"
  /\ UNCHANGED <<ctrlVars, joint_msr_, x_dt_des_, x_, x_dot_, last_publish_time_,
                 command, pub_turn, msg_, cb_pc, cb_msg, now, start_time,
                 pub_times, snap, fresh, oob, period,
                 handoff>>

\* q_dt_cmd_(i), for an index that may lie beyond the buffer
CmdAt(cmd, i, g) == IF i <= Len(cmd) THEN cmd[i] ELSE g

\* a velocity writer that scales the command by the period
writeVelocityCommands_PID_scaled(cmd, msr, n, p, g) ==
  [i \in 1..n |-> CmdAt(cmd, i, g) * p]

\* CartesianVelocityControllerPID::writeVelocityCommands
writeVelocityCommands_PID(cmd, msr, n, p, g) ==
  [i \in 1..n |-> CmdAt(cmd, i, g)]

\* a position writer that leaves the sensed position out
writeVelocityCommands_PIDSim_increment(cmd, msr, n, p, g) ==
  [i \in 1..n |-> CmdAt(cmd, i, g) * p]

\* CartesianVelocityControllerPIDSim::writeVelocityCommands
writeVelocityCommands_PIDSim(cmd, msr, n, p, g) ==
  [i \in 1..n |-> CmdAt(msr.q, i, g) + CmdAt(cmd, i, g) * p]

\* a command write that also stores the command in the snapshot
update_write_into_snapshot(p, g) ==
  /\ rt_pc = "write"
  /\ command' = IF variant = "PID"
                  THEN writeVelocityCommands_PID(q_dt_cmd_, joint_msr_, nHandles, p, g)
                  ELSE writeVelocityCommands_PIDSim(q_dt_cmd_, joint_msr_, nHandles, p, g)
  /\ joint_msr_' = [joint_msr_ EXCEPT !.q = [i \in 1..Len(joint_msr_.q) |->
                                               CmdAt(command', i, g)]]
  /\ stages' = Append(stages, "write")
  /\ rt_pc' = "fkvel"
  /\ period' = p
  /\ UNCHANGED <<ctrlVars, q_dt_cmd_, x_dt_des_, x_, x_dot_,
                 last_publish_time_, pub_turn, msg_, cb_pc, cb_msg, now, start_time,
                 pub_times, ik_twist, snap, fresh, oob,
                 handoff>>

\* Line 77: the virtual call writes one command per joint handle.  p is the
\* period argument of update(), which nothing else in the cycle reads; g is
\* what a read beyond a buffer returns.
update_write(p, g) ==
  /\ rt_pc = "write"
  /\ command' = IF variant = "PID"
                  THEN writeVelocityCommands_PID(q_dt_cmd_, joint_msr_, nHandles, p, g)
                  ELSE writeVelocityCommands_PIDSim(q_dt_cmd_, joint_msr_, nHandles, p, g)
  /\ stages' = Append(stages, "write")
  /\ rt_pc' = "fkvel"
  /\ period' = p
  /\ UNCHANGED <<ctrlVars, joint_msr_, q_dt_cmd_, x_dt_des_, x_, x_dot_,
                 last_publish_time_, pub_turn, msg_, cb_pc, cb_msg, now, start_time,
                 pub_times, ik_twist, snap, fresh, oob,
                 handoff>>

\* Line 80: forward velocity solve on the snapshot.
update_fkvel ==
  /\ rt_pc = "fkvel"
  /\ x_dot_' = FkVel(joint_msr_.q, joint_msr_.qdot)
  /\ stages' = Append(stages, "fkvel")
  /\ rt_pc' = "fkpos"
  /\ UNCHANGED <<ctrlVars, joint_msr_, q_dt_cmd_, x_dt_des_, x_, last_publish_time_,
                 command, pub_turn, msg_, cb_pc, cb_msg, now, start_time,
                 pub_times, ik_twist, snap, fresh, oob, period,
                 handoff>>

\* Line 81: forward position solve on the snapshot.
update_fkpos ==
  /\ rt_pc = "fkpos"
  /\ x_' = FkPos(joint_msr_.q)
  /\ stages' = Append(stages, "fkpos")
  /\ rt_pc' = "gate"
  /\ UNCHANGED <<ctrlVars, joint_msr_, q_dt_cmd_, x_dt_des_, x_dot_,
                 last_publish_time_, command, pub_turn, msg_, cb_pc, cb_msg, now,
                 start_time, pub_times, ik_twist, snap, fresh, oob, period,
                 handoff>>

\* the rate limit with <= in place of <
PublishDueAtEqual(rate, last, t) == rate > 0 /\ last + PublishInterval(rate) <= t

\* the rate limit with != 0 in place of > 0
PublishDueNonzero(rate, last, t) == rate # 0 /\ last + PublishInterval(rate) < t

\* Lines 84-85: the rate limit; && evaluates the interval only for a rate > 0.
PublishDue(rate, last, t) == rate > 0 /\ last + PublishInterval(rate) < t

\* what evaluating the condition of lines 84-85 goes through
GateStages(rate) == IF rate > 0 THEN <<"gate", "interval">> ELSE <<"gate">>

update_gate ==
  /\ rt_pc = "gate"
  /\ stages' = stages \o GateStages(publish_rate_)
  /\ rt_pc' = IF PublishDue(publish_rate_, last_publish_time_, now)
                THEN "trylock" ELSE "ready"
  /\ UNCHANGED <<ctrlVars, joint_msr_, q_dt_cmd_, x_dt_des_, x_, x_dot_,
                 last_publish_time_, command, pub_turn, msg_, cb_pc, cb_msg, now,
                 start_time, pub_times, ik_twist, snap, fresh, oob, period,
                 handoff>>

\* a gate that a publication leaves where it was
AdvanceGateStuck(last, rate, t) == last

\* a gate that a publication sets to the time of the cycle
AdvanceGateToNow(last, rate, t) == t

\* a gate that a publication advances by two intervals
AdvanceGateTwice(last, rate, t) == last + 2 * PublishInterval(rate)

\* Lines 90-91: the new value of last_publish_time_ after a publication
AdvanceGate(last, rate, t) == last + PublishInterval(rate)

\* a publication that never hands the message to the publishing thread
update_publish_keeping_turn ==
  /\ rt_pc = "trylock"
  /\ pub_turn = "REALTIME"
  /\ last_publish_time_' = AdvanceGate(last_publish_time_, publish_rate_, now)
  /\ msg_' = [stamp |-> now, pose |-> x_, twist |-> x_dot_]
  /\ pub_turn' = "LOOP_NOT_STARTED"
  /\ pub_times' = Append(pub_times, now)
  /\ stages' = stages \o <<"trylock", "publish">>
  /\ rt_pc' = "ready"
  /\ UNCHANGED <<ctrlVars, joint_msr_, q_dt_cmd_, x_dt_des_, x_, x_dot_, command,
                 cb_pc, cb_msg, now, start_time, ik_twist, snap, fresh, oob, period,
                 handoff>>

\* Lines 88-98: trylock() succeeds when it is the realtime thread's turn; the
\* cycle then advances the gate, fills msg_ and hands it to the publisher.
update_publish ==
  /\ rt_pc = "trylock"
  /\ pub_turn = "REALTIME"
  /\ last_publish_time_' = AdvanceGate(last_publish_time_, publish_rate_, now)
  /\ msg_' = [stamp |-> now, pose |-> x_, twist |-> x_dot_]
  /\ pub_turn' = "NON_REALTIME"
  /\ pub_times' = Append(pub_times, now)
  /\ stages' = stages \o <<"trylock", "publish">>
  /\ rt_pc' = "ready"
  /\ UNCHANGED <<ctrlVars, joint_msr_, q_dt_cmd_, x_dt_des_, x_, x_dot_, command,
                 cb_pc, cb_msg, now, start_time, ik_twist, snap, fresh, oob, period,
                 handoff>>

\* a failed trylock() that advances the gate all the same
update_busy_advancing ==
  /\ rt_pc = "trylock"
  /\ pub_turn # "REALTIME"
  /\ last_publish_time_' = AdvanceGate(last_publish_time_, publish_rate_, now)
  /\ stages' = Append(stages, "trylock")
  /\ rt_pc' = "ready"
  /\ UNCHANGED <<ctrlVars, joint_msr_, q_dt_cmd_, x_dt_des_, x_, x_dot_, command, pub_turn, msg_, cb_pc, cb_msg, now,
                 start_time, pub_times, ik_twist, snap, fresh, oob, period,
                 handoff>>

\* a lock() in place of trylock(): it returns only once the channel is free
update_busy_waiting ==
  /\ rt_pc = "trylock"
  /\ pub_turn = "REALTIME"
  /\ stages' = Append(stages, "trylock")
  /\ rt_pc' = "ready"
  /\ UNCHANGED <<ctrlVars, joint_msr_, q_dt_cmd_, x_dt_des_, x_, x_dot_,
                 last_publish_time_, command, pub_turn, msg_, cb_pc, cb_msg, now,
                 start_time, pub_times, ik_twist, snap, fresh, oob, period,
                 handoff>>

\* Line 88, the other way: trylock() fails and the cycle ends.
update_busy ==
  /\ rt_pc = "trylock"
  /\ pub_turn # "REALTIME"
  /\ stages' = Append(stages, "trylock")
  /\ rt_pc' = "ready"
  /\ UNCHANGED <<ctrlVars, joint_msr_, q_dt_cmd_, x_dt_des_, x_, x_dot_,
                 last_publish_time_, command, pub_turn, msg_, cb_pc, cb_msg, now,
                 start_time, pub_times, ik_twist, snap, fresh, oob, period,
                 handoff>>

\* The publisher's background thread sends msg_ and returns the turn.
publishingLoop ==
  /\ pub_created
  /\ pub_turn = "NON_REALTIME"
  /\ pub_turn' = "REALTIME"
  /\ UNCHANGED <<ctrlVars, joint_msr_, q_dt_cmd_, x_dt_des_, x_, x_dot_,
                 last_publish_time_, command, msg_, cb_pc, cb_msg, rt_pc, now,
                 start_time, pub_times, stages, ik_twist, snap, fresh, oob, period,
                 handoff>>

\* --------------------------------------------------------- specification
Times(from, horizon) == from..Min(from + MaxStep, horizon)

\* the cycle, once update() has been entered
update_rest ==
  \/ update_ik
  \/ \E p \in 0..MaxPeriod, g \in Garbage : update_write(p, g)
  \/ update_fkvel
  \/ update_fkpos
  \/ update_gate
  \/ update_publish
  \/ update_busy

\* Commands arrive at a controller whose chain setup succeeded and that is
\* activated once, at the time init() returned.
CmdParams == {<<TicksPerSec>>}

Next ==
  \/ \E prm \in CmdParams : init("ok", prm)
  \/ rt_pc = "inactive" /\ starting(now)
  \/ \E m \in Msgs : command_cart_vel_begin(m)
  \/ command_cart_vel_step
  \/ \E t \in Times(now, CmdMaxTime), s \in Sensed(nHandles) : update_read(t, s)
  \/ update_rest
  \/ publishingLoop

Spec == Init /\ [][Next]_vars

\* No command arrives; every outcome of init(), restarts, and a longer time.
NextQuiet ==
  \/ \E o \in ChainOutcomes, prm \in Params : init(o, prm)
  \/ \E t \in Times(now, MaxTime) : starting(t)
  \/ \E t \in Times(now, MaxTime), s \in Sensed(nHandles) : update_read(t, s)
  \/ update_rest
  \/ publishingLoop

SpecQuiet == Init /\ [][NextQuiet]_vars

\* No command arrives and the controller is activated once; the realtime
\* thread keeps calling update() and runs every call to its end, and the
\* publishing thread sends every message it has been handed.
NextLive ==
  \/ \E o \in ChainOutcomes, prm \in Params : init(o, prm)
  \/ \E t \in Times(now, MaxTime) : rt_pc = "inactive" /\ starting(t)
  \/ \E t \in Times(now, MaxTime), s \in Sensed(nHandles) : update_read(t, s)
  \/ update_rest
  \/ publishingLoop

Fairness ==
  /\ WF_vars(\E t \in Times(now, MaxTime), s \in Sensed(nHandles) : update_read(t, s))
  /\ WF_vars(update_rest)
  /\ WF_vars(publishingLoop)

SpecLive == Init /\ [][NextLive]_vars /\ Fairness

\* ------------------------------------------------------ helpers of claims
RECURSIVE Count(_, _)
Count(seq, x) ==
  IF seq = <<>> THEN 0
  ELSE (IF Head(seq) = x THEN 1 ELSE 0) + Count(Tail(seq), x)

Has(seq, x) == \E i \in 1..Len(seq) : seq[i] = x

LastOf(seq) == seq[Len(seq)]

\* the twists in which all six components come from one source
WholeTwists == {TwistZero} \cup {TwistOfMsg(m) : m \in Msgs}

\* a cycle has run its inverse solve since the last starting()
Solved == rt_pc # "inactive" /\ Has(stages, "ik")

\* a cycle has run to its end since the last starting()
CycleDone == rt_pc = "ready" /\ stages # <<>>

\* ------------------------------------------------------------------- C1
\* C1: the twist update() hands to the inverse solve is always a complete
\* twist, the zero twist or all six components of one message, also when
\* command_cart_vel runs at the same time as the cycle.
C1_AtomicTwistHandoff == Solved => ik_twist \in WholeTwists

\* ------------------------------------------------------------------- C2
\* C2: after starting(), as long as no new message has been delivered, every
\* cycle solves for the zero twist and commands zero joint velocities, also
\* when the delivery of an earlier message overlaps starting().
C2_StartResetsState ==
  (Solved /\ fresh) =>
     /\ ik_twist = TwistZero
     /\ \A i \in 1..Len(q_dt_cmd_) : q_dt_cmd_[i] = 0

\* ------------------------------------------------------------------- C3
\* the publications since starting() made by cycles whose time is in [a, b]
PubsIn(a, b) ==
  Cardinality({k \in 1..Len(pub_times) : a <= pub_times[k] /\ pub_times[k] <= b})

\* floor(T * R) for a window of T ticks
ExpectedPubs(T, rate) == (T * rate) \div TicksPerSec

JustGated == stages # <<>> /\ LastOf(stages) \in {"gate", "interval"}

\* C4 as claimed: a cycle attempts a publish exactly when publish_rate > 0
\* and now >= last_published + 1/publish_rate.
C4_PublishEligibility ==
  JustGated =>
     (rt_pc = "trylock" <=>
        (publish_rate_ > 0
         /\ now >= last_publish_time_ + PublishInterval(publish_rate_)))

\* C4 as amended: a cycle attempts a publish exactly when publish_rate > 0
\* and now > last_published + 1/publish_rate; the cycle whose time equals
\* last_published + 1/publish_rate attempts none.
C4_PublishEligibilityStrict ==
  JustGated =>
     (rt_pc = "trylock" <=>
        (publish_rate_ > 0
         /\ now > last_publish_time_ + PublishInterval(publish_rate_)))

\* a cycle at exactly last_published + 1/publish_rate has evaluated the limit
C4_Witness ==
  /\ JustGated
  /\ publish_rate_ > 0
  /\ now = last_publish_time_ + PublishInterval(publish_rate_)
  /\ rt_pc = "ready"

\* ------------------------------------------------------------------- C5
\* C5: last_published is the start time plus one publish interval per
\* successful publication since starting(); a publication never moves it to
\* the time of the cycle.
C5_DriftFreeGate ==
  init_ret = "true" =>
     last_publish_time_ =
        start_time + (IF publish_rate_ > 0
                        THEN Len(pub_times) * PublishInterval(publish_rate_)
                        ELSE 0)

\* two publications, the second by a cycle later than the gate value it left
C5_Witness ==
  /\ Len(pub_times) >= 2
  /\ LastOf(pub_times) > last_publish_time_ + 1

\* ------------------------------------------------------------------- C6
\* C6: when the trylock of an eligible cycle fails, the cycle ends at once:
\* nothing is published, last_published and the message stay as they were,
\* trylock was called once, the joint command of the cycle has been written,
\* and a cycle at any later time is eligible again.
C6_BusySkipped ==
  [][(rt_pc = "trylock" /\ pub_turn # "REALTIME" /\ rt_pc' # "trylock") =>
        /\ rt_pc' = "ready"
        /\ last_publish_time_' = last_publish_time_
        /\ msg_' = msg_
        /\ pub_times' = pub_times
        /\ pub_turn' = pub_turn
        /\ Count(stages', "trylock") = 1
        /\ Count(stages', "write") = 1
        /\ ~Has(stages', "publish")
        /\ \A t \in now'..(MaxTime + MaxStep) :
              PublishDue(publish_rate_', last_publish_time_', t)]_vars

\* a cycle has ended on a failed trylock
C6_Witness ==
  /\ CycleDone
  /\ LastOf(stages) = "trylock"
  /\ Has(stages, "write")
  /\ pub_turn = "NON_REALTIME"

\* ------------------------------------------------------------------- C7
\* C7: with publish_rate <= 0 no cycle attempts a publish or fills a message,
\* last_published stays what starting() set, and the interval
\* 1/publish_rate is never evaluated.
C7_TelemetryDisabled ==
  (init_ret = "true" /\ publish_rate_ <= 0) =>
     /\ rt_pc # "trylock"
     /\ ~Has(stages, "trylock")
     /\ ~Has(stages, "publish")
     /\ ~Has(stages, "interval")
     /\ pub_times = <<>>
     /\ msg_ = NoMsg
     /\ pub_turn = "REALTIME"
     /\ last_publish_time_ = start_time

\* a cycle has evaluated the limit, three ticks after the start, at rate 0
C7_Witness ==
  /\ publish_rate_ = 0
  /\ CycleDone
  /\ Has(stages, "gate")
  /\ now >= start_time + 3

\* ------------------------------------------------------------------- C8
\* C8: init() returns failure whenever the base-class chain setup failed, and
\* no starting() or update() runs on a controller whose chain setup failed.
C8_InitFailsOnChainFailure ==
  /\ (init_ret # "none" /\ ~base_ret) => init_ret = "false"
  /\ rt_pc # "inactive" => base_ret

\* ------------------------------------------------------------------- C9
\* C9: without a value for publish_rate init() returns failure and has set up
\* neither the subscription nor the publisher; with a value, and the chain
\* setup done, init() returns success.
C9_InitFailsOnMissingParam ==
  /\ (init_ret # "none" /\ cfg_param = NoParam) =>
        (init_ret = "false" /\ ~subscribed /\ ~pub_created)
  /\ (init_ret # "none" /\ cfg_param # NoParam /\ base_ret) =>
        (init_ret = "true" /\ subscribed /\ pub_created)

\* init() has returned on a good chain with no publish_rate
C9_Witness == init_ret = "false" /\ cfg_param = NoParam /\ base_ret

\* ------------------------------------------------------------------ C10
Pipeline == <<"read", "ik", "write", "fkvel", "fkpos", "gate">>

\* C10: a cycle goes through read, inverse solve, command write, forward
\* velocity solve, forward position solve and the publish gate, in this
\* order and whatever the state; the command is written once per cycle; the
\* forward solves work on the snapshot read at the start of the cycle, which
\* the command write leaves alone.
C10_CyclePipeline ==
  /\ \A i \in 1..Min(Len(stages), Len(Pipeline)) : stages[i] = Pipeline[i]
  /\ \A i \in (Len(Pipeline) + 1)..Len(stages) :
        stages[i] \in {"interval", "trylock", "publish"}
  /\ CycleDone => Len(stages) >= Len(Pipeline)
  /\ Count(stages, "write") <= 1
  /\ Has(stages, "read") => joint_msr_ = snap
  /\ CycleDone => Count(stages, "write") = 1
  /\ Has(stages, "fkvel") => x_dot_ = FkVel(snap.q, snap.qdot)
  /\ Has(stages, "fkpos") => x_ = FkPos(snap.q)

\* a cycle has run to a publication with a command that moves the joints
C10_Witness ==
  /\ CycleDone
  /\ Has(stages, "publish")
  /\ ik_twist # TwistZero
  /\ \E i \in 1..Len(q_dt_cmd_) : q_dt_cmd_[i] # 0
  /\ x_ # 0

\* ------------------------------------------------------------------ C11
\* the command writer of the current (or last) cycle has run
Written == rt_pc # "inactive" /\ Has(stages, "write")

\* C11: the integrated-position writer writes, to every joint i, the position
\* sensed in the same cycle plus the velocity command of joint i times the
\* cycle period; with a period of 0 it writes the sensed position, whatever
\* the velocity command.
C11_IntegratedPosition ==
  (Written /\ variant = "PIDSim") =>
     /\ Len(command) = nHandles
     /\ \A i \in 1..nHandles : command[i] = snap.q[i] + q_dt_cmd_[i] * period
     /\ period = 0 => command = snap.q

\* a non-zero velocity command has been integrated over a non-zero period
\* from a non-zero position
C11_Witness ==
  /\ Written
  /\ variant = "PIDSim"
  /\ period # 0
  /\ \E i \in 1..nHandles :
        snap.q[i] # 0 /\ q_dt_cmd_[i] # 0 /\ command[i] = snap.q[i] + q_dt_cmd_[i]

\* ------------------------------------------------------------------ C12
\* C12: the direct-velocity writer writes, to every joint i, exactly the
\* solved velocity q_dt_cmd_(i), whatever the period and the sensed position.
C12_DirectVelocity ==
  (Written /\ variant = "PID") =>
     /\ Len(command) = nHandles
     /\ \A i \in 1..nHandles : command[i] = q_dt_cmd_[i]

\* a non-zero velocity has been written with a non-zero period at a non-zero
\* position
C12_Witness ==
  /\ Written
  /\ variant = "PID"
  /\ period # 0
  /\ \E i \in 1..nHandles :
        snap.q[i] # 0 /\ q_dt_cmd_[i] # 0 /\ command[i] = q_dt_cmd_[i]

Delivered == handoff = "whole"

\* the stages of a cycle that follow its inverse solve
AfterSolve == {"write", "fkvel", "fkpos", "gate", "trylock"}

\* the desired twist is the message of the last delivery, component by
\* component, and the cycle in progress has solved for it
UsesLastMessage ==
  /\ x_dt_des_.vel = <<cb_msg.linear.x, cb_msg.linear.y, cb_msg.linear.z>>
  /\ x_dt_des_.rot = <<cb_msg.angular.x, cb_msg.angular.y, cb_msg.angular.z>>
  /\ rt_pc \in AfterSolve =>
        /\ ik_twist = x_dt_des_
        /\ q_dt_cmd_ = CartToJnt(snap.q, x_dt_des_)

\* C14: a delivery that returns without having run alongside an update()
\* leaves the desired twist equal to the message, linear x/y/z then angular
\* x/y/z, with nothing kept from an earlier command, and every cycle that
\* follows solves for that twist, until the next delivery or starting().
C14_WholeTwistOverwrite == Delivered => UsesLastMessage

\* the same for the deliveries during which starting() did not run either
C14_OverwriteApartFromStart == (Delivered /\ ~fresh) => UsesLastMessage

\* ------------------------------------------------------------------ C15
\* what the controller holds apart from the desired twist
OtherState ==
  <<joint_msr_, q_dt_cmd_, x_, x_dot_, last_publish_time_, command, pub_turn,
    msg_, publish_rate_, pub_created, subscribed, nJoints, nHandles, rt_pc, now>>

\* C15: last_published changes only in starting(), which sets it to the
\* activation time, and in a cycle whose trylock succeeded, which adds one
\* publish interval; command_cart_vel, the command writer, and the cycles
\* that are not eligible or find the channel busy leave it as it was; and
\* command_cart_vel changes nothing but the desired twist.
C15_GateFrame ==
  [][/\ last_publish_time_' # last_publish_time_ =>
          \/ /\ rt_pc \in {"inactive", "ready"}
             /\ rt_pc' = "ready"
             /\ start_time' = now'
             /\ last_publish_time_' = now'
          \/ /\ rt_pc = "trylock"
             /\ pub_turn = "REALTIME"
             /\ pub_turn' = "NON_REALTIME"
             /\ last_publish_time_' =
                   last_publish_time_ + PublishInterval(publish_rate_)
     /\ cb_pc' # cb_pc => OtherState' = OtherState
     /\ rt_pc = "write" => last_publish_time_' = last_publish_time_
     /\ (rt_pc = "gate" /\ rt_pc' = "ready") =>
          last_publish_time_' = last_publish_time_
     /\ (rt_pc = "trylock" /\ pub_turn # "REALTIME") =>
          last_publish_time_' = last_publish_time_]_vars

\* a publication has moved the gate, the cycle after it has found the channel
\* busy, and command_cart_vel is at work
C15_Witness ==
  /\ Len(pub_times) >= 1
  /\ last_publish_time_ > start_time
  /\ CycleDone
  /\ LastOf(stages) = "trylock"
  /\ cb_pc \in 2..6

\* ------------------------------------------------------------------ C16
\* the positions of the realtime thread inside update()
InCycle == {"ik", "write", "fkvel", "fkpos", "gate", "trylock"}

\* C16: wherever a cycle stands, its next step can be taken, whoever holds
\* the publish channel and whatever command_cart_vel is doing; a cycle calls
\* trylock at most once and ends after a bounded number of steps.
C16_NonBlockingCycle ==
  /\ rt_pc \in InCycle => ENABLED <<update_rest>>_vars
  /\ Count(stages, "trylock") <= 1
  /\ Len(stages) <= Len(Pipeline) + 3

\* a cycle that command_cart_vel ran alongside has ended on a trylock that
\* found the channel held by the publishing thread
C16_Witness ==
  /\ CycleDone
  /\ LastOf(stages) = "trylock"
  /\ pub_turn = "NON_REALTIME"
  /\ handoff = "overlapped"

\* ------------------------------------------------------------------ C17
\* C17: wherever starting() or a cycle can run, the number of joint handles
\* does not exceed the joint count of the chain, to which init() sized the
\* snapshot and the command buffer, and no index beyond a buffer is used.
C17_IndexBounds ==
  init_ret = "true" =>
     /\ nHandles <= nJoints
     /\ nHandles <= Len(joint_msr_.q)
     /\ nHandles <= Len(joint_msr_.qdot)
     /\ nHandles <= Len(q_dt_cmd_)
     /\ ~oob

\* ------------------------------------------------------------------ C18
\* C18: last_published is never later than the time of the most recent
\* cycle (or of starting()), so n publications since the start take at
\* least n publish intervals: n * (1/publish_rate) <= now - start_time.
C18_GateNotAhead ==
  init_ret = "true" =>
     /\ last_publish_time_ <= now
     /\ publish_rate_ > 0 =>
           Len(pub_times) * PublishInterval(publish_rate_) <= now - start_time

\* after a restart, a cycle that had fallen behind has published and left
\* the gate one tick behind its own time
C18_Witness ==
  /\ start_time > 0
  /\ Len(pub_times) >= 2
  /\ CycleDone
  /\ LastOf(stages) = "publish"
  /\ last_publish_time_ = now - 1

\* ------------------------------------------------------------------ C19
\* a publication is due: the next cycle to reach the rate limit is eligible
Due ==
  /\ rt_pc # "inactive"
  /\ PublishDue(publish_rate_, last_publish_time_, now)

\* the cycle that has just ended made a publication
JustPublished == CycleDone /\ LastOf(stages) = "publish"

\* C19: with publish_rate > 0, cycles that keep coming and a publishing
\* thread that frees the channel after every message, whenever a publication
\* is due a cycle publishes in the end, however long the channel was busy
\* before: no busy period disables the telemetry for good.
C19_EventuallyPublished == Due ~> JustPublished

\* a cycle has ended on a failed trylock, the channel has been freed since,
\* and the publication is still due
C19_Witness ==
  /\ Due
  /\ CycleDone
  /\ LastOf(stages) = "trylock"
  /\ pub_turn = "REALTIME"
  /\ Len(pub_times) >= 1
====
